---------------------------- MODULE Spec2Model ----------------------------
(***************************************************************************)
(* The KOOK gateway session client (KookWSClient, src/src/types.ts) as a   *)
(* state machine.  The client runs on a single-threaded event loop: every  *)
(* action below is one callback (a timer, a frame handler, a socket event, *)
(* the continuation of an await) run to its next await, together with the *)
(* promise continuations it makes runnable at once.  Timers are untimed:   *)
(* a pending timer may fire at any moment, so every real schedule is a     *)
(* behaviour of the model.                                                 *)
(***************************************************************************)
EXTENDS Integers, Sequences, FiniteSets, Bags, TLC

\* ---- bounds of the model ----
MaxTransports == 2      \* WebSockets created in one run
MaxTasks == 2           \* connectFresh / reconnectWithBackoff calls in flight
MaxAttempts == 2        \* cap on reconnectAttempts
MaxRecoveries == 2      \* attemptRecovery calls in progress
MaxSn == 2              \* sequence numbers of the event frames of Spec
MaxObserved == 1        \* event frames per sequence epoch in Spec
MaxSessionId == 1       \* session ids the gateway hands out
SeqMaxSn == 4           \* sequence numbers of the event frames of SeqSpec
SeqMaxObserved == 5     \* event frames observed in SeqSpec
MaxLog == 6             \* recorded recovery actions of one episode
SessionMaxObserved == 3  \* event frames per sequence epoch in SessionSpec
BackoffMaxAttempts == 21 \* failed endpoint fetches in a row before any socket
MaxAllowFrom == 1          \* entries of an allowFrom list

\* ---- program constants ----
PONG_TIMEOUT_MS == 6000
HELLO_TIMEOUT_MS == 6000
HELLO_CODE_SUCCESS == 0
HELLO_CODE_INVALID_TOKEN == 40101
BACKOFF_CAP_MS == 60000
BACKOFF_BASE_MS == 1000

Payloads == {"a", "b"}     \* event payloads of SeqSpec
MainPayloads == {"a"}      \* event payloads of Spec
Throwing == {"b"}          \* payloads on which options.onEvent throws
HelloCodes == {HELLO_CODE_SUCCESS, HELLO_CODE_INVALID_TOKEN}

VARIABLES
    \* fields of KookWSClient
    stopped,            \* this.stopped
    ws,                 \* this.ws: index into sockets, 0 for null
    sessionId,          \* this.sessionId: 0 for null
    lastSn,             \* this.lastSn
    buffer,             \* this.buffer: sn -> payload of the buffered signal
    heartbeatTimer,     \* this.heartbeatTimer is a live interval
    pongTimeout,        \* this.pongTimeout is a pending timeout
    reconnectAttempts,  \* this.reconnectAttempts
    \* the event loop
    started,            \* start() has been called
    sockets,            \* every WebSocket created by connect(), in order
    fetching,           \* connectFresh calls awaiting getGateway
    sleeping,           \* reconnectWithBackoff calls in their sleep
    recovery,           \* bag of attemptRecovery calls: where each one sleeps
    \* history
    delivered,          \* onEvent calls since lastSn was last 0
    observed,           \* event frames handled since lastSn was last 0
    recLog,             \* RecoverySpec: the recovery actions of the episode
    emit,               \* the onConnected / onDisconnected calls of the last step,
                        \* and its report of a frame that is no JSON
    \* the monitor and the bot
    kookCfg,            \* cfg.channels.kook: the access control options
    handled,            \* the last message handleKookMessage took, and its outcome
    aborted,            \* the abort signal has fired
    resolved            \* the promise of monitorWebSocket has been resolved

clientVars == <<stopped, ws, sessionId, lastSn, buffer, heartbeatTimer,
                pongTimeout, reconnectAttempts>>
loopVars == <<started, sockets, fetching, sleeping, recovery>>
histVars == <<delivered, observed, recLog>>
eventVars == <<delivered, observed>>
botVars == <<kookCfg, handled>>
monitorVars == <<botVars, aborted, resolved>>
vars == <<clientVars, loopVars, histVars, emit, monitorVars>>

\* ---- helpers ----
RECURSIVE Pow2(_)
Pow2(n) == IF n <= 0 THEN 1 ELSE 2 * Pow2(n - 1)

Min(a, b) == IF a <= b THEN a ELSE b

\* 1000 * Math.pow(2, attempts - 1), without the Math.min
Backoff_NoCap(attempts) == BACKOFF_BASE_MS * Pow2(attempts - 1)

\* Math.min(60_000, 1000 * Math.pow(2, attempts - 1))
Backoff(attempts) == Min(BACKOFF_CAP_MS, BACKOFF_BASE_MS * Pow2(attempts - 1))

ProbeDelay(i) == (i + 1) * 2000
ResumeDelay(i) == (i + 1) * 8000

EmptyBuffer == <<>>

\* new WebSocket(url) with its helloTimeout; receiving: the socket has been
\* opened and can still emit "message".  The promise of connect() is pending
\* exactly while the socket is not closed and helloTimeout is pending: the
\* timeout rejects it, and a HELLO, which settles it, clears the timeout.
NewSocket == [readyState |-> "CONNECTING", receiving |-> FALSE,
              helloTimeout |-> "pending"]

\* a closed socket: its close handler has cleared helloTimeout
ClosedSocket == [readyState |-> "CLOSED", receiving |-> FALSE,
                 helloTimeout |-> "cleared"]

connectPending(t) == sockets[t].helloTimeout = "pending"

Sockets == 1..Len(sockets)

\* ws.close(): a socket that is connecting or open starts closing
closeSocket(socks, t) ==
    IF t # 0 /\ socks[t].readyState \in {"CONNECTING", "OPEN"}
    THEN [socks EXCEPT ![t].readyState = "CLOSING"]
    ELSE socks

\* this.ws && this.ws.readyState === WebSocket.OPEN
wsOpen == ws # 0 /\ sockets[ws].readyState = "OPEN"

\* a step that calls neither onConnected nor onDisconnected
NoCallback == emit' = <<>>

\* a step of the client alone: the bot handles no message and the abort
\* signal does not fire
ClientStep == UNCHANGED monitorVars

Task(pc, i) == [pc |-> pc, i |-> i]
Spawn(task) == recovery (+) SetToBag({task})
Finish(task) == recovery (-) SetToBag({task})
Move(from, to) == (recovery (-) SetToBag({from})) (+) SetToBag({to})

\* ---- the bot's access control (bot.ts, policy.ts) ----

\* an optional value: {} is undefined, {v} is the value v
Optional(S) == {{}} \cup {{v} : v \in S}
\* opt ?? d
orElse(opt, d) == IF opt = {} THEN d ELSE CHOOSE v \in opt : TRUE

\* the strings of the model: entries an allow list may hold, and the ids and
\* names of the senders
EntryPool == {" 2 ", "Bob", "*"}
SenderIds == {"1", "2"}
SenderNames == {"Bob"}

\* String.prototype.trim and toLowerCase on these strings
trim(s) == IF s = " 2 " THEN "2" ELSE s
toLowerCase(s) == IF s = "Bob" THEN "bob" ELSE s

AllowLists == {l \in SUBSET EntryPool : Cardinality(l) <= MaxAllowFrom}

\* KookGroupConfig: the entry of cfg.groups for the guild of the message
GroupConfigs ==
    [allowFrom : Optional(AllowLists), requireMention : Optional(BOOLEAN)]

\* KookConfig: the access control options, each one optional
Configs ==
    [dmPolicy : Optional({"open", "pairing", "allowlist"}),
     allowFrom : Optional(AllowLists),
     groupPolicy : Optional({"open", "allowlist", "disabled"}),
     groupAllowFrom : Optional(AllowLists),
     requireMention : Optional(BOOLEAN),
     group : Optional(GroupConfigs)]

\* a configuration that sets none of them
UnsetConfig ==
    [dmPolicy |-> {}, allowFrom |-> {}, groupPolicy |-> {},
     groupAllowFrom |-> {}, requireMention |-> {}, group |-> {}]

\* parseKookMessageEvent: what access control reads of a message of a user
Messages ==
    [channelType : {"GROUP", "PERSON"}, senderId : SenderIds,
     senderName : Optional(SenderNames), mentionedBot : BOOLEAN]

resolveKookAllowlistMatch(allowFrom, senderId, senderName) ==
    LET list == {toLowerCase(trim(entry)) : entry \in allowFrom} \ {""}
    IN  IF list = {} THEN FALSE
        ELSE IF "*" \in list THEN TRUE
        ELSE IF toLowerCase(senderId) \in list THEN TRUE
        ELSE /\ senderName # {}
             /\ toLowerCase(orElse(senderName, "")) \in list

\* the entry of cfg.groups under the guild id of the message, if any
resolveKookGroupConfig(cfg) == cfg.group

isKookGroupAllowed(groupPolicy, allowFrom, senderId, senderName) ==
    IF groupPolicy = "disabled" THEN FALSE
    ELSE IF groupPolicy = "open" THEN TRUE
    ELSE resolveKookAllowlistMatch(allowFrom, senderId, senderName)

resolveKookReplyPolicy(isDirectMessage, globalConfig, groupConfig) ==
    IF isDirectMessage THEN FALSE
    ELSE LET ofGroup == IF groupConfig = {} THEN {}
                        ELSE orElse(groupConfig, {}).requireMention
         IN  orElse(ofGroup, orElse(globalConfig.requireMention, TRUE))

\* the list a group message's sender is matched against:
\* groupConfig?.allowFrom ?? groupAllowFrom
senderAllowFrom(cfg) ==
    LET groupConfig == resolveKookGroupConfig(cfg)
        ofGroup == IF groupConfig = {} THEN {}
                   ELSE orElse(groupConfig, {}).allowFrom
    IN  orElse(ofGroup, orElse(cfg.groupAllowFrom, {}))

\* handleKookMessage up to its dispatch: "dropped" (return), "history" (the
\* message is recorded in the chat history, then return) or "dispatched"
handleKookMessage(cfg, ctx) ==
    IF ctx.channelType = "GROUP"
    THEN LET groupPolicy == orElse(cfg.groupPolicy, "open")
             allowed == isKookGroupAllowed(groupPolicy, senderAllowFrom(cfg),
                                           ctx.senderId, ctx.senderName)
             requireMention ==
                 resolveKookReplyPolicy(FALSE, cfg, resolveKookGroupConfig(cfg))
         IN  IF ~allowed THEN "dropped"
             ELSE IF requireMention /\ ~ctx.mentionedBot THEN "history"
             ELSE "dispatched"
    ELSE LET dmPolicy == orElse(cfg.dmPolicy, "pairing")
             allowFrom == orElse(cfg.allowFrom, {})
         IN  IF /\ dmPolicy = "allowlist"
                /\ ~resolveKookAllowlistMatch(allowFrom, ctx.senderId, {})
             THEN "dropped"
             ELSE "dispatched"

\* the monitor before start(): no option is set and the signal has not fired
MonitorInit ==
    /\ kookCfg = UnsetConfig
    /\ handled = <<>>
    /\ aborted = FALSE
    /\ resolved = FALSE

Init ==
    /\ stopped = FALSE
    /\ ws = 0
    /\ sessionId = 0
    /\ lastSn = 0
    /\ buffer = EmptyBuffer
    /\ heartbeatTimer = FALSE
    /\ pongTimeout = FALSE
    /\ reconnectAttempts = 0
    /\ started = FALSE
    /\ sockets = <<>>
    /\ fetching = 0
    /\ sleeping = 0
    /\ recovery = EmptyBag
    /\ delivered = <<>>
    /\ observed = <<>>
    /\ recLog = <<>>
    /\ emit = <<>>
    /\ MonitorInit

\* start(): stopped = false, then connectFresh() up to its await of getGateway
Start ==
    /\ ~started
    /\ started' = TRUE
    /\ stopped' = FALSE
    /\ fetching' = fetching + 1
    /\ UNCHANGED <<ws, sessionId, lastSn, buffer, heartbeatTimer, pongTimeout,
                   reconnectAttempts, sockets, sleeping, recovery,
                   histVars>>

\* stop()
Stop ==
    /\ started
    /\ ~stopped
    /\ stopped' = TRUE
    /\ heartbeatTimer' = FALSE
    /\ pongTimeout' = FALSE
    /\ sockets' = closeSocket(sockets, ws)
    /\ ws' = 0
    /\ emit' = <<"onDisconnected">>
    /\ UNCHANGED <<sessionId, lastSn, buffer, reconnectAttempts, started,
                   fetching, sleeping, recovery, histVars>>

\* reconnectWithBackoff() up to its sleep
reconnectWithBackoff ==
    IF stopped
    THEN UNCHANGED <<reconnectAttempts, sleeping>>
    ELSE /\ reconnectAttempts < MaxAttempts
         /\ fetching + sleeping < MaxTasks
         /\ reconnectAttempts' = reconnectAttempts + 1
         /\ sleeping' = sleeping + 1

\* the sleep of reconnectWithBackoff ends: connectFresh() unless stopped
BackoffWake ==
    /\ sleeping > 0
    /\ sleeping' = sleeping - 1
    /\ fetching' = IF stopped THEN fetching ELSE fetching + 1
    /\ UNCHANGED <<clientVars, started, sockets, recovery, histVars>>

\* getGateway resolves, and connect(url) without its test of stopped
GatewayOk_NoStopCheck ==
    /\ fetching > 0
    /\ fetching' = fetching - 1
    /\ Len(sockets) < MaxTransports
    /\ sockets' = Append(sockets, NewSocket)
    /\ ws' = Len(sockets) + 1
    /\ UNCHANGED <<stopped, sessionId, lastSn, buffer, heartbeatTimer,
                   pongTimeout, reconnectAttempts, started, sleeping, recovery, histVars>>

\* getGateway resolves: connect(url) creates the socket unless stopped
GatewayOk ==
    /\ fetching > 0
    /\ fetching' = fetching - 1
    /\ IF stopped
       THEN UNCHANGED <<ws, sockets>>
       ELSE /\ Len(sockets) < MaxTransports
            /\ reconnectAttempts <= MaxAttempts
            /\ sockets' = Append(sockets, NewSocket)
            /\ ws' = Len(sockets) + 1
    /\ UNCHANGED <<stopped, sessionId, lastSn, buffer, heartbeatTimer,
                   pongTimeout, reconnectAttempts, started, sleeping, recovery, histVars>>

\* how far reconnectAttempts may grow: before the first socket the endpoint
\* fetch may fail BackoffMaxAttempts times in a row
AttemptsCap == IF sockets = <<>> THEN BackoffMaxAttempts ELSE MaxAttempts

\* getGateway rejects: the catch of connectFresh
GatewayFail ==
    /\ fetching > 0
    /\ fetching' = fetching - 1
    /\ IF stopped
       THEN UNCHANGED <<reconnectAttempts, sleeping>>
       ELSE /\ reconnectAttempts < AttemptsCap
            /\ reconnectAttempts' = reconnectAttempts + 1
            /\ sleeping' = sleeping + 1
    /\ UNCHANGED <<stopped, ws, sessionId, lastSn, buffer, heartbeatTimer,
                   pongTimeout, started, sockets, recovery, eventVars>>

\* ws.on("open")
SocketOpen(t) ==
    /\ sockets[t].readyState = "CONNECTING"
    /\ sockets' = [sockets EXCEPT ![t].readyState = "OPEN", ![t].receiving = TRUE]
    /\ UNCHANGED <<clientVars, started, fetching, sleeping,
                   recovery, histVars>>

\* ws.on("close") without clearHeartbeat() and clearPongTimeout()
SocketClose_KeepTimers(t) ==
    /\ sockets[t].readyState # "CLOSED"
    /\ sockets' = [sockets EXCEPT ![t] = ClosedSocket]
    /\ reconnectWithBackoff
    /\ UNCHANGED <<stopped, ws, sessionId, lastSn, buffer, heartbeatTimer,
                   pongTimeout, started, fetching, recovery, histVars>>

\* ws.on("close"): the socket failed to connect, was closed by the peer or
\* finished the close that ws.close() began
SocketClose(t) ==
    /\ sockets[t].readyState # "CLOSED"
    /\ sockets' = [sockets EXCEPT ![t] = ClosedSocket]
    /\ heartbeatTimer' = FALSE
    /\ pongTimeout' = FALSE
    /\ reconnectWithBackoff
    /\ UNCHANGED <<stopped, ws, sessionId, lastSn, buffer, started, fetching,
                   recovery, histVars>>

\* the helloTimeout of socket t fires: ws.close(), reject, and the catch of
\* the connectFresh that awaits this connect()
HelloTimeout(t) ==
    /\ sockets[t].helloTimeout = "pending"
    /\ sockets' = [closeSocket(sockets, t) EXCEPT ![t].helloTimeout = "fired"]
    /\ reconnectWithBackoff
    /\ UNCHANGED <<stopped, ws, sessionId, lastSn, buffer, heartbeatTimer,
                   pongTimeout, started, fetching, recovery, histVars>>

\* a frame can reach the message handler of socket t
CanReceive(t) ==
    /\ sockets[t].receiving
    /\ sockets[t].readyState \in {"OPEN", "CLOSING"}

\* a frame that is no JSON text, handled as fatal: the socket is closed
OnUndecodable_Fatal(t) ==
    /\ CanReceive(t)
    /\ sockets' = closeSocket(sockets, t)
    /\ emit' = <<"parseError">>
    /\ UNCHANGED <<clientVars, started, fetching, sleeping, recovery, histVars>>

\* a frame that is no JSON text on socket t: parseMessage() reports it and
\* returns null, and the message handler returns
OnUndecodable(t) ==
    /\ CanReceive(t)
    /\ emit' = <<"parseError">>
    /\ UNCHANGED <<clientVars, loopVars, histVars>>

\* a HELLO frame on socket t, handled without reconnectAttempts = 0
OnHello_KeepAttempts(t, code, sid) ==
    /\ CanReceive(t)
    /\ IF code = HELLO_CODE_SUCCESS
       THEN /\ sessionId' = sid
            /\ UNCHANGED reconnectAttempts
            /\ heartbeatTimer' = TRUE
            /\ sockets' = [sockets EXCEPT ![t].helloTimeout = "cleared"]
            /\ emit' = <<"onConnected">>
            /\ UNCHANGED sleeping
       ELSE /\ sockets' = [closeSocket(sockets, t) EXCEPT
                   ![t].helloTimeout = "cleared"]
            /\ IF connectPending(t)
               THEN reconnectWithBackoff
               ELSE UNCHANGED <<reconnectAttempts, sleeping>>
            /\ emit' = <<>>
            /\ UNCHANGED <<sessionId, heartbeatTimer>>
    /\ UNCHANGED <<stopped, ws, lastSn, buffer, pongTimeout, started, fetching,
                   recovery, histVars>>

\* a HELLO frame on socket t, handled without the test of hello.code
OnHello_NoCodeCheck(t, code, sid) ==
    /\ CanReceive(t)
    /\ sessionId' = sid
    /\ reconnectAttempts' = 0
    /\ heartbeatTimer' = TRUE
    /\ sockets' = [sockets EXCEPT ![t].helloTimeout = "cleared"]
    /\ emit' = <<"onConnected">>
    /\ UNCHANGED <<stopped, ws, lastSn, buffer, pongTimeout, started, fetching,
                   sleeping, recovery, histVars>>

\* a HELLO frame on socket t
OnHello(t, code, sid) ==
    /\ CanReceive(t)
    /\ IF code = HELLO_CODE_SUCCESS
       THEN /\ sessionId' = sid
            /\ reconnectAttempts' = 0
            /\ heartbeatTimer' = TRUE
            /\ sockets' = [sockets EXCEPT ![t].helloTimeout = "cleared"]
            /\ emit' = <<"onConnected">>
            /\ UNCHANGED sleeping
       ELSE /\ sockets' = [closeSocket(sockets, t) EXCEPT
                   ![t].helloTimeout = "cleared"]
            /\ IF connectPending(t)
               THEN reconnectWithBackoff
               ELSE UNCHANGED <<reconnectAttempts, sleeping>>
            /\ emit' = <<>>
            /\ UNCHANGED <<sessionId, heartbeatTimer>>
    /\ UNCHANGED <<stopped, ws, lastSn, buffer, pongTimeout, started, fetching,
                   recovery, histVars>>

\* ---- the sequence reassembler ----

\* dispatchEvent(event) without its try / catch: what onEvent throws leaves it
dispatchEvent_NoCatch(d) == d \in Throwing

\* dispatchEvent(event): onEvent is called (the caller records the call), and
\* the result tells whether an exception leaves dispatchEvent and so ends
\* the handler that called it: never, the catch logs what onEvent throws
dispatchEvent(d) == FALSE

\* buffer.set(sn, signal)
bufferSet(buf, sn, d) ==
    [k \in DOMAIN buf \cup {sn} |-> IF k = sn THEN d ELSE buf[k]]

\* buffer.delete(sn)
bufferDelete(buf, sn) == [k \in DOMAIN buf \ {sn} |-> buf[k]]

\* processEventBuffer() without its buffer.delete(): the entries stay
RECURSIVE processEventBuffer_NoDelete(_, _, _)
processEventBuffer_NoDelete(sn, buf, out) ==
    IF (sn + 1) \in DOMAIN buf
    THEN processEventBuffer_NoDelete(sn + 1, buf,
             Append(out, [sn |-> sn + 1, d |-> buf[sn + 1]]))
    ELSE [lastSn |-> sn, buffer |-> buf, out |-> out]

\* processEventBuffer() with an if in place of its while: one entry at most
processEventBuffer_OneStep(sn, buf, out) ==
    IF (sn + 1) \in DOMAIN buf
    THEN [lastSn |-> sn + 1, buffer |-> bufferDelete(buf, sn + 1),
          out |-> Append(out, [sn |-> sn + 1, d |-> buf[sn + 1]])]
    ELSE [lastSn |-> sn, buffer |-> buf, out |-> out]

\* processEventBuffer(): the loop, from lastSn = sn with buffer buf, after the
\* onEvent calls out
RECURSIVE processEventBuffer(_, _, _)
processEventBuffer(sn, buf, out) ==
    IF (sn + 1) \in DOMAIN buf
    THEN IF dispatchEvent(buf[sn + 1])
         THEN [lastSn |-> sn + 1, buffer |-> bufferDelete(buf, sn + 1),
               out |-> Append(out, [sn |-> sn + 1, d |-> buf[sn + 1]])]
         ELSE processEventBuffer(sn + 1, bufferDelete(buf, sn + 1),
                                 Append(out, [sn |-> sn + 1, d |-> buf[sn + 1]]))
    ELSE [lastSn |-> sn, buffer |-> buf, out |-> out]

\* handleEvent(signal) without the call of processEventBuffer()
handleEvent_NoDrain(sn, d) ==
    IF sn = lastSn + 1
    THEN [lastSn |-> sn, buffer |-> buffer, out |-> <<[sn |-> sn, d |-> d]>>]
    ELSE IF sn > lastSn + 1
    THEN [lastSn |-> lastSn, buffer |-> bufferSet(buffer, sn, d), out |-> <<>>]
    ELSE [lastSn |-> lastSn, buffer |-> buffer, out |-> <<>>]

\* handleEvent(signal) buffering whatever is not next, duplicates included
handleEvent_BufferDup(sn, d) ==
    IF sn = lastSn + 1
    THEN processEventBuffer(sn, buffer, <<[sn |-> sn, d |-> d]>>)
    ELSE [lastSn |-> lastSn, buffer |-> bufferSet(buffer, sn, d), out |-> <<>>]

\* handleEvent(signal): the new lastSn and buffer, and the onEvent calls made
handleEvent(sn, d) ==
    IF sn = lastSn + 1
    THEN IF dispatchEvent(d)
         THEN [lastSn |-> sn, buffer |-> buffer, out |-> <<[sn |-> sn, d |-> d]>>]
         ELSE processEventBuffer(sn, buffer, <<[sn |-> sn, d |-> d]>>)
    ELSE IF sn > lastSn + 1
    THEN [lastSn |-> lastSn, buffer |-> bufferSet(buffer, sn, d), out |-> <<>>]
    ELSE [lastSn |-> lastSn, buffer |-> buffer, out |-> <<>>]

\* an EVENT frame on socket t
OnEvent(t, sn, d) ==
    /\ CanReceive(t)
    /\ LET r == handleEvent(sn, d)
       IN /\ lastSn' = r.lastSn
          /\ buffer' = r.buffer
          /\ delivered' = delivered \o r.out
    /\ observed' = Append(observed, [sn |-> sn, d |-> d, t |-> t])
    /\ UNCHANGED <<stopped, ws, sessionId, heartbeatTimer, pongTimeout,
                   reconnectAttempts, loopVars, recLog>>

\* ---- heartbeat ----

\* a PONG frame on socket t: handlePong()
OnPong(t) ==
    /\ CanReceive(t)
    /\ pongTimeout' = FALSE
    /\ UNCHANGED <<stopped, ws, sessionId, lastSn, buffer, heartbeatTimer,
                   reconnectAttempts, loopVars, histVars>>

\* the heartbeat interval ticks: sendPing()
HeartbeatTick ==
    /\ heartbeatTimer
    /\ pongTimeout' = IF wsOpen THEN TRUE ELSE pongTimeout
    /\ UNCHANGED <<stopped, ws, sessionId, lastSn, buffer, heartbeatTimer,
                   reconnectAttempts, loopVars, histVars>>

\* the pongTimeout fires: attemptRecovery() up to its first sleep
PongTimeoutFire ==
    /\ pongTimeout
    /\ heartbeatTimer' = FALSE
    /\ pongTimeout' = FALSE
    /\ IF stopped
       THEN UNCHANGED recovery
       ELSE /\ BagCardinality(recovery) < MaxRecoveries
            /\ recovery' = Spawn(Task("probeSleep", 0))
    /\ UNCHANGED <<stopped, ws, sessionId, lastSn, buffer, reconnectAttempts,
                   started, sockets, fetching, sleeping, eventVars>>

\* ---- full reconnect and resume ----

\* handleReconnect(), with connectFresh() up to its await of getGateway
handleReconnect ==
    /\ lastSn' = 0
    /\ sessionId' = 0
    /\ buffer' = EmptyBuffer
    /\ sockets' = closeSocket(sockets, ws)
    /\ ws' = 0
    /\ heartbeatTimer' = FALSE
    /\ pongTimeout' = FALSE
    /\ IF stopped
       THEN UNCHANGED fetching
       ELSE /\ fetching + sleeping < MaxTasks
            /\ fetching' = fetching + 1
    /\ delivered' = <<>>
    /\ observed' = <<>>

\* what handleReconnect() writes
reconnectVars == <<lastSn, sessionId, buffer, sockets, ws, heartbeatTimer,
                   pongTimeout, fetching, delivered, observed>>

\* a RECONNECT frame on socket t
OnReconnect(t) ==
    /\ CanReceive(t)
    /\ handleReconnect
    /\ UNCHANGED <<stopped, reconnectAttempts, started, sleeping, recovery,
                   recLog>>

\* handleResumeAck that also resets the sequence state
OnResumeAck_Reset(t, sid) ==
    /\ CanReceive(t)
    /\ sessionId' = sid
    /\ heartbeatTimer' = TRUE
    /\ lastSn' = 0
    /\ buffer' = EmptyBuffer
    /\ UNCHANGED <<stopped, ws, pongTimeout, reconnectAttempts, loopVars,
                   histVars>>

\* a RESUME_ACK frame on socket t: handleResumeAck(d)
OnResumeAck(t, sid) ==
    /\ CanReceive(t)
    /\ sessionId' = sid
    /\ heartbeatTimer' = TRUE
    /\ UNCHANGED <<stopped, ws, lastSn, buffer, pongTimeout, reconnectAttempts,
                   loopVars, histVars>>

\* ---- attemptRecovery ----

\* after extra probe i failed: the next loop test of step 1, or the first of
\* step 2; each returns when stopped
afterProbe(i) ==
    IF stopped THEN EmptyBag
    ELSE IF i = 0 THEN SetToBag({Task("probeSleep", 1)})
    ELSE SetToBag({Task("resumeSleep", 0)})

\* sleep((i + 1) * 2000) of step 1 ends: the extra PING when the socket is open
ProbeSleepWake(i) ==
    /\ BagIn(Task("probeSleep", i), recovery)
    /\ IF wsOpen
       THEN /\ pongTimeout' = TRUE
            /\ recovery' = Move(Task("probeSleep", i), Task("probeWait", i))
       ELSE /\ recovery' = Finish(Task("probeSleep", i)) (+) afterProbe(i)
            /\ UNCHANGED pongTimeout
    /\ UNCHANGED <<stopped, ws, sessionId, lastSn, buffer, heartbeatTimer,
                   reconnectAttempts, started, sockets, fetching, sleeping,
                   eventVars>>

\* sleep(PONG_TIMEOUT_MS) after the extra PING ends
ProbeWaitWake(i) ==
    /\ BagIn(Task("probeWait", i), recovery)
    /\ IF ~pongTimeout
       THEN /\ heartbeatTimer' = TRUE
            /\ recovery' = Finish(Task("probeWait", i))
            /\ UNCHANGED pongTimeout
       ELSE /\ pongTimeout' = FALSE
            /\ recovery' = Finish(Task("probeWait", i)) (+) afterProbe(i)
            /\ UNCHANGED heartbeatTimer
    /\ UNCHANGED <<stopped, ws, sessionId, lastSn, buffer, reconnectAttempts,
                   started, sockets, fetching, sleeping, eventVars>>

\* resume attempt i of task failed: the next loop test of step 2, or step 3
resumeFailed(task, i) ==
    IF i = 0
    THEN /\ recovery' = Finish(task) (+)
                (IF stopped THEN EmptyBag
                 ELSE SetToBag({Task("resumeSleep", 1)}))
         /\ UNCHANGED reconnectVars
    ELSE /\ recovery' = Finish(task)
         /\ handleReconnect

\* the test of tryResume(): a RESUME can be sent
canResume == wsOpen /\ sessionId # 0

\* sleep((i + 1) * 8000) of step 2 ends: tryResume() up to its sleep
ResumeSleepWake(i) ==
    /\ BagIn(Task("resumeSleep", i), recovery)
    /\ IF canResume
       THEN /\ recovery' = Move(Task("resumeSleep", i), Task("resumeWait", i))
            /\ UNCHANGED reconnectVars
       ELSE resumeFailed(Task("resumeSleep", i), i)
    /\ UNCHANGED <<stopped, reconnectAttempts, started, sleeping>>

\* sleep(6000) of tryResume ends: resumed when the heartbeat runs again
ResumeWaitWake(i) ==
    /\ BagIn(Task("resumeWait", i), recovery)
    /\ IF heartbeatTimer
       THEN /\ recovery' = Finish(Task("resumeWait", i))
            /\ UNCHANGED reconnectVars
       ELSE resumeFailed(Task("resumeWait", i), i)
    /\ UNCHANGED <<stopped, reconnectAttempts, started, sleeping>>

\* ---- the specification ----

Next ==
    \/ ClientStep /\ Start /\ NoCallback
    \/ ClientStep /\ Stop
    \/ ClientStep /\ GatewayOk /\ NoCallback
    \/ ClientStep /\ GatewayFail /\ UNCHANGED recLog /\ NoCallback
    \/ ClientStep /\ BackoffWake /\ NoCallback
    \/ ClientStep /\ \E t \in Sockets : SocketOpen(t) /\ NoCallback
    \/ ClientStep /\ \E t \in Sockets : SocketClose(t) /\ NoCallback
    \/ ClientStep /\ \E t \in Sockets : HelloTimeout(t) /\ NoCallback
    \/ ClientStep /\ \E t \in Sockets : \E sid \in 0..MaxSessionId :
           OnHello(t, HELLO_CODE_SUCCESS, sid)
    \/ ClientStep /\ \E t \in Sockets : OnHello(t, HELLO_CODE_INVALID_TOKEN, 0)
    \/ ClientStep /\ \E t \in Sockets : \E sn \in 1..MaxSn : \E d \in MainPayloads :
           Len(observed) < MaxObserved /\ OnEvent(t, sn, d) /\ NoCallback
    \/ ClientStep /\ \E t \in Sockets : OnPong(t) /\ NoCallback
    \/ ClientStep /\ \E t \in Sockets : OnReconnect(t) /\ NoCallback
    \/ ClientStep /\ \E t \in Sockets : \E sid \in 1..MaxSessionId : OnResumeAck(t, sid) /\ NoCallback
    \/ ClientStep /\ HeartbeatTick /\ NoCallback
    \/ ClientStep /\ PongTimeoutFire /\ UNCHANGED recLog /\ NoCallback
    \/ ClientStep /\ \E i \in 0..1 : ProbeSleepWake(i) /\ UNCHANGED recLog /\ NoCallback
    \/ ClientStep /\ \E i \in 0..1 : ProbeWaitWake(i) /\ UNCHANGED recLog /\ NoCallback
    \/ ClientStep /\ \E i \in 0..1 : ResumeSleepWake(i) /\ UNCHANGED recLog /\ NoCallback
    \/ ClientStep /\ \E i \in 0..1 : ResumeWaitWake(i) /\ UNCHANGED recLog /\ NoCallback

Spec == Init /\ [][Next]_vars

\* ---- SeqSpec: the reassembler of one connected session ----

\* a session right after its HELLO: start(), getGateway, open, HELLO
SeqInit ==
    /\ stopped = FALSE
    /\ ws = 1
    /\ sessionId = 1
    /\ lastSn = 0
    /\ buffer = EmptyBuffer
    /\ heartbeatTimer = TRUE
    /\ pongTimeout = FALSE
    /\ reconnectAttempts = 0
    /\ started = TRUE
    /\ sockets = <<[readyState |-> "OPEN", receiving |-> TRUE,
                    helloTimeout |-> "cleared"]>>
    /\ fetching = 0
    /\ sleeping = 0
    /\ recovery = EmptyBag
    /\ delivered = <<>>
    /\ observed = <<>>
    /\ recLog = <<>>
    /\ emit = <<>>
    /\ MonitorInit

SeqNext ==
    ClientStep /\ \E sn \in 1..SeqMaxSn : \E d \in Payloads :
        Len(observed) < SeqMaxObserved /\ OnEvent(ws, sn, d) /\ NoCallback

SeqSpec == SeqInit /\ [][SeqNext]_vars

\* ---- SessionSpec: events across resumes and reconnections ----
\* A connected session receives events, PONG, RESUME_ACK and RECONNECT frames
\* and frames that are no JSON, its heartbeat ticks, its socket may close, and
\* the reconnections that follow run to their HELLO.

SessionNext ==
    \/ ClientStep /\ \E t \in Sockets : \E sn \in 1..SeqMaxSn : \E d \in MainPayloads :
           Len(observed) < SessionMaxObserved /\ OnEvent(t, sn, d) /\ NoCallback
    \/ ClientStep /\ \E t \in Sockets : \E sid \in 1..MaxSessionId : OnResumeAck(t, sid) /\ NoCallback
    \/ ClientStep /\ \E t \in Sockets : OnReconnect(t) /\ NoCallback
    \/ ClientStep /\ \E t \in Sockets : SocketClose(t) /\ NoCallback
    \/ ClientStep /\ BackoffWake /\ NoCallback
    \/ ClientStep /\ GatewayOk /\ NoCallback
    \/ ClientStep /\ \E t \in Sockets : SocketOpen(t) /\ NoCallback
    \/ ClientStep /\ \E t \in Sockets : \E sid \in 1..MaxSessionId :
           connectPending(t) /\ OnHello(t, HELLO_CODE_SUCCESS, sid)
    \/ ClientStep /\ \E t \in Sockets : OnUndecodable(t)
    \/ ClientStep /\ \E t \in Sockets : OnPong(t) /\ NoCallback
    \/ ClientStep /\ HeartbeatTick /\ NoCallback

SessionSpec == SeqInit /\ [][SessionNext]_vars

\* ---- RecoverySpec: a gateway that goes silent ----
\* The socket stays open, every HELLO carries a session id, and no PONG,
\* RESUME_ACK or RECONNECT frame ever arrives; a recorder notes each PING and
\* RESUME the recovery sends and each full reconnect it makes.

Log(entry) == IF Len(recLog) < MaxLog THEN Append(recLog, entry) ELSE recLog

\* a pongTimeout with no recovery in progress opens an episode
RecordEpisode == recLog' = IF recovery = EmptyBag THEN <<>> ELSE recLog

RecordProbe(i) ==
    recLog' = IF wsOpen THEN Log(<<"probe", ProbeDelay(i)>>) ELSE recLog

RecordResume(i) ==
    recLog' = IF canResume THEN Log(<<"resume", ResumeDelay(i)>>)
              ELSE IF i = 1 THEN Log(<<"reconnect", 0>>)
              ELSE recLog

RecordResumeWait(i) ==
    recLog' = IF ~heartbeatTimer /\ i = 1 THEN Log(<<"reconnect", 0>>)
              ELSE recLog

RecoveryNext ==
    \/ ClientStep /\ Start /\ NoCallback
    \/ ClientStep /\ GatewayOk /\ NoCallback
    \/ ClientStep /\ \E t \in Sockets : SocketOpen(t) /\ NoCallback
    \/ ClientStep /\ \E t \in Sockets : \E sid \in 1..MaxSessionId :
           connectPending(t) /\ OnHello(t, HELLO_CODE_SUCCESS, sid)
    \/ ClientStep /\ \E t \in Sockets : \E sn \in 1..MaxSn : \E d \in MainPayloads :
           Len(observed) < MaxObserved /\ OnEvent(t, sn, d) /\ NoCallback
    \/ ClientStep /\ HeartbeatTick /\ NoCallback
    \/ ClientStep /\ PongTimeoutFire /\ RecordEpisode /\ NoCallback
    \/ ClientStep /\ \E i \in 0..1 : ProbeSleepWake(i) /\ RecordProbe(i) /\ NoCallback
    \/ ClientStep /\ \E i \in 0..1 : ProbeWaitWake(i) /\ UNCHANGED recLog /\ NoCallback
    \/ ClientStep /\ \E i \in 0..1 : ResumeSleepWake(i) /\ RecordResume(i) /\ NoCallback
    \/ ClientStep /\ \E i \in 0..1 : ResumeWaitWake(i) /\ RecordResumeWait(i) /\ NoCallback

RecoverySpec == Init /\ [][RecoveryNext]_vars

\* ---- BackoffSpec: an endpoint that cannot be fetched ----
\* getGateway rejects every time; a recorder keeps the attempt number and the
\* delay of the last backoff wait that was started.

RecordBackoff ==
    recLog' = IF stopped THEN recLog
              ELSE <<reconnectAttempts', Backoff(reconnectAttempts')>>

BackoffNext ==
    \/ ClientStep /\ Start /\ NoCallback
    \/ ClientStep /\ Stop
    \/ ClientStep /\ GatewayFail /\ RecordBackoff /\ NoCallback
    \/ ClientStep /\ BackoffWake /\ NoCallback

BackoffSpec == Init /\ [][BackoffNext]_vars

\* ---- PolicySpec: the access control of the bot ----
\* The client is connected; the configuration is any of Configs, and the
\* events the client hands to onEvent are the messages of Messages.

PolicyInit ==
    /\ stopped = FALSE
    /\ ws = 1
    /\ sessionId = 1
    /\ lastSn = 0
    /\ buffer = EmptyBuffer
    /\ heartbeatTimer = TRUE
    /\ pongTimeout = FALSE
    /\ reconnectAttempts = 0
    /\ started = TRUE
    /\ sockets = <<[readyState |-> "OPEN", receiving |-> TRUE,
                    helloTimeout |-> "cleared"]>>
    /\ fetching = 0
    /\ sleeping = 0
    /\ recovery = EmptyBag
    /\ delivered = <<>>
    /\ observed = <<>>
    /\ recLog = <<>>
    /\ emit = <<>>
    /\ kookCfg \in Configs
    /\ handled = <<>>
    /\ aborted = FALSE
    /\ resolved = FALSE

\* onEvent of the monitor: handleKookMessage({cfg, event, ...})
HandleKookMessage(ctx) ==
    /\ ~stopped
    /\ handled' = <<[ctx |-> ctx, outcome |-> handleKookMessage(kookCfg, ctx)]>>
    /\ UNCHANGED <<clientVars, loopVars, histVars, kookCfg, aborted, resolved>>

PolicyNext ==
    \E ctx \in Messages : HandleKookMessage(ctx) /\ NoCallback

PolicySpec == PolicyInit /\ [][PolicyNext]_vars

\* ---- NoAckSpec: a gateway that acknowledges no RESUME ----
\* Every step of Spec but the RESUME_ACK frame: sockets close, the client
\* reconnects and shakes hands again, PONG and RECONNECT frames arrive.

NoAckNext ==
    \/ ClientStep /\ Start /\ NoCallback
    \/ ClientStep /\ Stop
    \/ ClientStep /\ GatewayOk /\ NoCallback
    \/ ClientStep /\ GatewayFail /\ UNCHANGED recLog /\ NoCallback
    \/ ClientStep /\ BackoffWake /\ NoCallback
    \/ ClientStep /\ \E t \in Sockets : SocketOpen(t) /\ NoCallback
    \/ ClientStep /\ \E t \in Sockets : SocketClose(t) /\ NoCallback
    \/ ClientStep /\ \E t \in Sockets : HelloTimeout(t) /\ NoCallback
    \/ ClientStep /\ \E t \in Sockets : \E sid \in 0..MaxSessionId :
           OnHello(t, HELLO_CODE_SUCCESS, sid)
    \/ ClientStep /\ \E t \in Sockets : OnHello(t, HELLO_CODE_INVALID_TOKEN, 0)
    \/ ClientStep /\ \E t \in Sockets : \E sn \in 1..MaxSn : \E d \in MainPayloads :
           Len(observed) < MaxObserved /\ OnEvent(t, sn, d) /\ NoCallback
    \/ ClientStep /\ \E t \in Sockets : OnPong(t) /\ NoCallback
    \/ ClientStep /\ \E t \in Sockets : OnReconnect(t) /\ NoCallback
    \/ ClientStep /\ HeartbeatTick /\ NoCallback
    \/ ClientStep /\ PongTimeoutFire /\ UNCHANGED recLog /\ NoCallback
    \/ ClientStep /\ \E i \in 0..1 : ProbeSleepWake(i) /\ UNCHANGED recLog /\ NoCallback
    \/ ClientStep /\ \E i \in 0..1 : ProbeWaitWake(i) /\ UNCHANGED recLog /\ NoCallback
    \/ ClientStep /\ \E i \in 0..1 : ResumeSleepWake(i) /\ UNCHANGED recLog /\ NoCallback
    \/ ClientStep /\ \E i \in 0..1 : ResumeWaitWake(i) /\ UNCHANGED recLog /\ NoCallback

NoAckSpec == Init /\ [][NoAckNext]_vars

\* ---- BoundSpec: a recovery whose socket closes ----
\* No PING is answered; the socket may close and the client reconnects and
\* shakes hands again.  A recorder keeps the socket each attemptRecovery call
\* of the episode started on: the client's socket when the pongTimeout fired.

RecordSocket ==
    recLog' = IF stopped THEN recLog
              ELSE IF recovery = EmptyBag THEN <<ws>>
              ELSE IF \E k \in DOMAIN recLog : recLog[k] = ws THEN recLog
              ELSE Append(recLog, ws)

BoundNext ==
    \/ ClientStep /\ Start /\ NoCallback
    \/ ClientStep /\ GatewayOk /\ NoCallback
    \/ ClientStep /\ BackoffWake /\ NoCallback
    \/ ClientStep /\ \E t \in Sockets : SocketOpen(t) /\ NoCallback
    \/ ClientStep /\ \E t \in Sockets : SocketClose(t) /\ NoCallback
    \/ ClientStep /\ \E t \in Sockets : \E sid \in 1..MaxSessionId :
           connectPending(t) /\ OnHello(t, HELLO_CODE_SUCCESS, sid)
    \/ ClientStep /\ \E t \in Sockets : \E sn \in 1..MaxSn : \E d \in MainPayloads :
           Len(observed) < MaxObserved /\ OnEvent(t, sn, d) /\ NoCallback
    \/ ClientStep /\ HeartbeatTick /\ NoCallback
    \/ ClientStep /\ PongTimeoutFire /\ RecordSocket /\ NoCallback
    \/ ClientStep /\ \E i \in 0..1 : ProbeSleepWake(i) /\ UNCHANGED recLog /\ NoCallback
    \/ ClientStep /\ \E i \in 0..1 : ProbeWaitWake(i) /\ UNCHANGED recLog /\ NoCallback
    \/ ClientStep /\ \E i \in 0..1 : ResumeSleepWake(i) /\ UNCHANGED recLog /\ NoCallback
    \/ ClientStep /\ \E i \in 0..1 : ResumeWaitWake(i) /\ UNCHANGED recLog /\ NoCallback

BoundSpec == Init /\ [][BoundNext]_vars

\* ---- MonitorSpec: the monitor and its abort signal ----
\* monitorWebSocket builds the client, registers handleAbort on the abort
\* signal and calls wsClient.start(), which registers a listener of its own.

\* the abort signal fires after wsClient.start(): the listeners run in the
\* order of their registration.  handleAbort calls wsClient.stop() and
\* resolves the promise; the listener of start() then calls stop() once more,
\* which finds the timers cleared and this.ws null and calls onDisconnected.
Abort ==
    /\ started
    /\ ~aborted
    /\ aborted' = TRUE
    /\ resolved' = TRUE
    /\ stopped' = TRUE
    /\ heartbeatTimer' = FALSE
    /\ pongTimeout' = FALSE
    /\ sockets' = closeSocket(sockets, ws)
    /\ ws' = 0
    /\ emit' = <<"onDisconnected", "onDisconnected">>
    /\ UNCHANGED <<sessionId, lastSn, buffer, reconnectAttempts, started,
                   fetching, sleeping, recovery, histVars, botVars>>

MonitorNext ==
    \/ ClientStep /\ Start /\ NoCallback
    \/ ClientStep /\ Stop
    \/ Abort
    \/ ClientStep /\ GatewayOk /\ NoCallback
    \/ ClientStep /\ GatewayFail /\ UNCHANGED recLog /\ NoCallback
    \/ ClientStep /\ BackoffWake /\ NoCallback
    \/ ClientStep /\ \E t \in Sockets : SocketOpen(t) /\ NoCallback
    \/ ClientStep /\ \E t \in Sockets : SocketClose(t) /\ NoCallback
    \/ ClientStep /\ \E t \in Sockets : \E sid \in 1..MaxSessionId :
           OnHello(t, HELLO_CODE_SUCCESS, sid)
    \/ ClientStep /\ \E t \in Sockets : \E sn \in 1..MaxSn : \E d \in MainPayloads :
           Len(observed) < MaxObserved /\ OnEvent(t, sn, d) /\ NoCallback
    \/ ClientStep /\ HeartbeatTick /\ NoCallback
    \/ ClientStep /\ \E t \in Sockets : OnPong(t) /\ NoCallback

MonitorSpec == Init /\ [][MonitorNext]_vars

\* ======================= claims =======================

ObservedSns == {observed[k].sn : k \in 1..Len(observed)}

\* the sequence numbers 1..n have each been observed once, and nothing else
ObservedOnce(n) == Len(observed) = n /\ ObservedSns = 1..n

PayloadOf(sn) ==
    observed[CHOOSE k \in 1..Len(observed) : observed[k].sn = sn].d

\* C1 (Ordering): on a fresh session, once the events 1..N have each been
\* observed exactly once, in any arrival order, onEvent has been called
\* exactly N times with payload(1), ..., payload(N) in that order, lastSn is
\* N and the buffer is empty.
C1_Ordering ==
    \A n \in 0..SeqMaxObserved :
        ObservedOnce(n) =>
            /\ Len(delivered) = n
            /\ \A k \in 1..n : delivered[k] = [sn |-> k, d |-> PayloadOf(k)]
            /\ lastSn = n
            /\ DOMAIN buffer = {}

\* all of 1..SeqMaxSn observed once, the highest first and 1 last
C1_Witness ==
    /\ ObservedOnce(SeqMaxSn)
    /\ observed[1].sn = SeqMaxSn
    /\ observed[SeqMaxSn].sn = 1
    /\ lastSn = SeqMaxSn

\* C2 (Duplicate immunity): an event whose sequence number is <= lastSn
\* calls onEvent for nothing and leaves lastSn and the buffer as they were;
\* so onEvent is called at most once per sequence number in a session.
C2_DuplicateImmunity ==
    /\ [][\A sn \in 1..SeqMaxSn : \A d \in Payloads :
              (sn <= lastSn /\ OnEvent(ws, sn, d))
                  => UNCHANGED <<lastSn, buffer, delivered>>]_vars
    /\ [](\A j, k \in 1..Len(delivered) :
              delivered[j].sn = delivered[k].sn => j = k)

\* 1 delivered, 3 buffered, then 1 observed again and dropped
C2_Witness ==
    /\ Len(observed) = 3
    /\ observed[1].sn = 1
    /\ observed[2].sn = 3
    /\ observed[3].sn = 1
    /\ lastSn = 1
    /\ DOMAIN buffer = {3}
    /\ Len(delivered) = 1

\* the end of the run of buffered events that follows sn
RunTop(sn) ==
    CHOOSE m \in sn..(sn + Cardinality(DOMAIN buffer)) :
        /\ (sn + 1)..m \subseteq DOMAIN buffer
        /\ (m + 1) \notin DOMAIN buffer

\* C3 (Gap persistence): an event beyond lastSn + 1 is stored and nothing is
\* delivered; nothing is delivered before every smaller sequence number has
\* been observed; and when lastSn + 1 arrives, it and the whole contiguous
\* buffered run are delivered in increasing order in that one step.
C3_GapPersistence ==
    /\ [][\A sn \in 1..SeqMaxSn : \A d \in Payloads :
              OnEvent(ws, sn, d) =>
                  /\ sn > lastSn + 1 =>
                         /\ delivered' = delivered
                         /\ lastSn' = lastSn
                         /\ DOMAIN buffer' = DOMAIN buffer \cup {sn}
                         /\ buffer'[sn] = d
                  /\ sn = lastSn + 1 =>
                         /\ lastSn' = RunTop(sn)
                         /\ Len(delivered') = Len(delivered) + RunTop(sn) - lastSn
                         /\ delivered'[Len(delivered) + 1] = [sn |-> sn, d |-> d]
                         /\ \A k \in (sn + 1)..RunTop(sn) :
                                delivered'[Len(delivered) + k - lastSn] =
                                    [sn |-> k, d |-> buffer[k]]
                         /\ \A k \in 1..Len(delivered) :
                                delivered'[k] = delivered[k]
                         /\ DOMAIN buffer' = DOMAIN buffer \ (sn..RunTop(sn))]_vars
    /\ [](\A k \in 1..Len(delivered) :
              delivered[k].sn = k /\ k \in ObservedSns)

\* 4 and 3 waited in the buffer until 2 arrived and released 2, 3, 4
C3_Witness ==
    /\ Len(observed) = 4
    /\ observed[1].sn = 1
    /\ observed[2].sn = 4
    /\ observed[3].sn = 3
    /\ observed[4].sn = 2
    /\ lastSn = 4
    /\ Len(delivered) = 4

\* C4 (Every full reconnection resets sequence state): when the HELLO of a
\* fresh handshake is accepted on a socket that has carried no event itself,
\* lastSn is 0 and the buffer is empty.
C4_FreshHandshakeResets ==
    [][\A t \in Sockets : \A sid \in 0..MaxSessionId :
           ( /\ connectPending(t)
             /\ \A k \in 1..Len(observed) : observed[k].t # t
             /\ OnHello(t, HELLO_CODE_SUCCESS, sid) )
               => (lastSn' = 0 /\ DOMAIN buffer' = {})]_vars

\* a step of the resume tier other than its final full reconnect
ResumeTierStep(i) ==
    \/ ResumeSleepWake(i) /\ (canResume \/ i = 0)
    \/ ResumeWaitWake(i) /\ (heartbeatTimer \/ i = 0)

\* C5 (Resume preserves sequence): a RESUME_ACK changes only sessionId and
\* the heartbeat timer, and no step of the resume tier (sending RESUME,
\* waiting) changes lastSn or the buffer.
C5_ResumePreservesSequence ==
    [][ /\ \A t \in Sockets : \A sid \in 1..MaxSessionId :
               OnResumeAck(t, sid) =>
                   UNCHANGED <<stopped, ws, lastSn, buffer, pongTimeout,
                               reconnectAttempts, sockets, fetching, sleeping,
                               recovery, delivered>>
        /\ \A i \in 0..1 :
               ResumeTierStep(i) => UNCHANGED <<lastSn, buffer, delivered>>
      ]_vars

\* a resume attempt waits, the heartbeat runs again, an event is buffered
C5_Witness ==
    /\ BagIn(Task("resumeWait", 0), recovery)
    /\ heartbeatTimer
    /\ sessionId # 0
    /\ DOMAIN buffer # {}

RecoveryTiers ==
    << <<"probe", 2000>>, <<"probe", 4000>>, <<"resume", 8000>>,
       <<"resume", 16000>>, <<"reconnect", 0>> >>

\* C6 (Recovery tiering): with the socket open, a session id known and no
\* PONG or RESUME_ACK ever received, what recovery does after a heartbeat
\* response-timeout is a probe after 2 s, a probe after 4 s, a RESUME after
\* 8 s, a RESUME after 16 s and a full reconnect, in this order, and it does
\* not end before the full reconnect.
C6_RecoveryTiering ==
    /\ Len(recLog) <= Len(RecoveryTiers)
    /\ \A k \in 1..Len(recLog) : recLog[k] = RecoveryTiers[k]
    /\ (recovery = EmptyBag /\ recLog # <<>>) => recLog = RecoveryTiers

\* C7 (Handshake timeout): a HELLO timeout (stop not called) starts exactly
\* one reconnect-with-backoff and adds exactly 1 to reconnectAttempts: the
\* timeout starts it, and the close of the socket it closed starts no other.
C7_HandshakeTimeoutOnce ==
    [][\A t \in Sockets :
           ~stopped =>
               /\ HelloTimeout(t) =>
                      /\ reconnectAttempts' = reconnectAttempts + 1
                      /\ sleeping' = sleeping + 1
               /\ (sockets[t].helloTimeout = "fired" /\ SocketClose(t)) =>
                      UNCHANGED <<reconnectAttempts, sleeping>>]_vars

ActiveTransports ==
    {t \in Sockets : sockets[t].readyState \in {"CONNECTING", "OPEN"}}

\* C8 (Single active transport): at most one socket is connecting or open,
\* and at most one connection attempt (endpoint fetch, backoff wait, socket
\* connecting or open) is in flight.
C8_SingleActiveTransport ==
    Cardinality(ActiveTransports) + fetching + sleeping <= 1

\* C9 (Stop prevents reconnection): once stop() has been called the client
\* stays stopped, no socket is created and no endpoint fetch is issued.
C9_StopPreventsReconnection ==
    [][stopped => /\ stopped'
                  /\ Len(sockets') = Len(sockets)
                  /\ fetching' <= fetching]_vars

\* stopped after a reconnection had begun; everything has wound down and no
\* socket followed the first
C9_Witness ==
    /\ stopped
    /\ reconnectAttempts >= 1
    /\ Len(sockets) = 1
    /\ sockets[1].readyState = "CLOSED"
    /\ fetching = 0
    /\ sleeping = 0
    /\ recovery = EmptyBag

\* C10 (Stopped means no timers): after stop() no heartbeat interval, no
\* pongTimeout and no helloTimeout is live.
C10_StoppedNoTimers ==
    stopped =>
        /\ ~heartbeatTimer
        /\ ~pongTimeout
        /\ \A t \in Sockets : sockets[t].helloTimeout # "pending"

\* the handshake timers that are armed
PendingHelloTimeouts == {t \in Sockets : sockets[t].helloTimeout = "pending"}

\* C11 (Timer multiplicity): at most one heartbeat interval, at most one
\* pongTimeout and at most one helloTimeout are live at any moment.  The
\* heartbeat interval and the pongTimeout live in one field each, cleared
\* before it is set again; a helloTimeout belongs to the socket it was armed
\* for.
C11_TimerMultiplicity ==
    /\ (IF heartbeatTimer THEN 1 ELSE 0) <= 1
    /\ (IF pongTimeout THEN 1 ELSE 0) <= 1
    /\ Cardinality(PendingHelloTimeouts) <= 1

\* one more attempt, with its backoff wait
OneMoreAttempt ==
    /\ reconnectAttempts' = reconnectAttempts + 1
    /\ sleeping' = sleeping + 1

\* C12 (Backoff sequence): until stop(), every failed connection cycle (the
\* endpoint fetch fails, the socket closes before its HELLO, the HELLO
\* timeout fires, the HELLO carries a failure code) raises the attempt number
\* by exactly 1 and starts exactly one wait, of Backoff(attempt number); the
\* close of a socket whose cycle has failed already starts no further wait;
\* a successful HELLO sets the count back, so that the next attempt is 1.
C12_BackoffSequence ==
    [][~stopped =>
           /\ GatewayFail => OneMoreAttempt
           /\ \A t \in Sockets :
                  /\ ( /\ connectPending(t)
                       /\ \/ HelloTimeout(t)
                          \/ SocketClose(t)
                          \/ OnHello(t, HELLO_CODE_INVALID_TOKEN, 0) )
                         => OneMoreAttempt
                  /\ (sockets[t].helloTimeout = "fired" /\ SocketClose(t))
                         => UNCHANGED <<reconnectAttempts, sleeping>>
                  /\ \A sid \in 0..MaxSessionId :
                         (connectPending(t) /\ OnHello(t, HELLO_CODE_SUCCESS, sid))
                             => reconnectAttempts' = 0]_vars

\* C13 (Backoff values): the delay of the wait for attempt n >= 1 is
\* min(60000, 1000 * 2^(n-1)) ms: 1000 for n = 1, 16000 for n = 5, 60000 for
\* n = 10; it never exceeds 60000, and from one attempt to the next it never
\* decreases.
C13_BackoffValues ==
    /\ [](recLog # <<>> =>
            LET n == recLog[1]
                delay == recLog[2]
            IN /\ n >= 1
               /\ delay = (IF 1000 * 2^(n - 1) < 60000
                           THEN 1000 * 2^(n - 1) ELSE 60000)
               /\ delay <= 60000
               /\ n = 1 => delay = 1000
               /\ n = 5 => delay = 16000
               /\ n = 10 => delay = 60000)
    /\ [][(recLog # <<>> /\ recLog' # <<>>) => recLog'[2] >= recLog[2]]_vars

\* the tenth wait in a row has been started: 60000 ms
C13_Witness ==
    /\ recLog = <<10, 60000>>
    /\ reconnectAttempts = 10
    /\ sleeping = 1

\* C14 (Successful handshake): a HELLO with code 0 on a socket that awaits its
\* handshake cancels the helloTimeout, sets sessionId to the session_id of
\* the HELLO, sets reconnectAttempts to 0, starts the heartbeat timer and
\* calls onConnected; it leaves lastSn and the buffer as they were.
C14_SuccessfulHandshake ==
    [][\A t \in Sockets : \A sid \in 0..MaxSessionId :
           (connectPending(t) /\ OnHello(t, HELLO_CODE_SUCCESS, sid)) =>
               /\ sockets'[t].helloTimeout = "cleared"
               /\ sessionId' = sid
               /\ reconnectAttempts' = 0
               /\ heartbeatTimer'
               /\ emit' = <<"onConnected">>
               /\ UNCHANGED <<lastSn, buffer>>]_vars

\* the HELLO of a second socket has just been accepted, events of the
\* session before still counted
C14_Witness ==
    /\ emit = <<"onConnected">>
    /\ ws = 2
    /\ sockets[2].readyState = "OPEN"
    /\ sockets[2].helloTimeout = "cleared"
    /\ sessionId = 1
    /\ heartbeatTimer
    /\ reconnectAttempts = 0
    /\ lastSn = 1

\* C15 (Failed handshake): a HELLO whose code is not 0 captures no
\* sessionId, starts no heartbeat timer, calls no onConnected and closes the
\* socket; unless stopped, a reconnection with backoff follows: at once when
\* the handshake was pending, and in any case when the socket has closed.
C15_FailedHandshake ==
    [][\A t \in Sockets :
           /\ OnHello(t, HELLO_CODE_INVALID_TOKEN, 0) =>
                  /\ UNCHANGED <<sessionId, heartbeatTimer>>
                  /\ emit' = <<>>
                  /\ sockets'[t].readyState = "CLOSING"
                  /\ sockets'[t].helloTimeout = "cleared"
                  /\ (connectPending(t) /\ ~stopped) => OneMoreAttempt
                  /\ stopped => UNCHANGED <<reconnectAttempts, sleeping>>
           /\ ( /\ sockets[t].readyState = "CLOSING"
                /\ sockets[t].helloTimeout = "cleared"
                /\ ~stopped
                /\ SocketClose(t) ) => OneMoreAttempt]_vars

\* the first HELLO of the first socket carried a failure code
C15_Witness ==
    /\ ~stopped
    /\ ws = 1
    /\ Len(sockets) = 1
    /\ sockets[1].readyState = "CLOSING"
    /\ sockets[1].helloTimeout = "cleared"
    /\ sessionId = 0
    /\ ~heartbeatTimer
    /\ reconnectAttempts = 1
    /\ sleeping = 1
    /\ emit = <<>>

\* the consumer throws on event sn = lastSn + 1 with payload d or on an event
\* of the buffered run behind it
ThrowsInRun(sn, d) ==
    \/ d \in Throwing
    \/ \E k \in (sn + 1)..RunTop(sn) : buffer[k] \in Throwing

\* C16 (Consumer isolation): when onEvent throws while an event of a drain is
\* delivered, lastSn, the buffer, sessionId, the timers and the socket end as
\* if it had returned: the whole contiguous run is still delivered in the
\* same step, in order, and nothing else changes.
C16_ConsumerIsolation ==
    [][\A sn \in 1..SeqMaxSn : \A d \in Payloads :
           (sn = lastSn + 1 /\ ThrowsInRun(sn, d) /\ OnEvent(ws, sn, d)) =>
               /\ lastSn' = RunTop(sn)
               /\ DOMAIN buffer' = DOMAIN buffer \ (sn..RunTop(sn))
               /\ \A k \in DOMAIN buffer' : buffer'[k] = buffer[k]
               /\ delivered' = delivered \o
                      [k \in 1..(RunTop(sn) - lastSn) |->
                          IF k = 1 THEN [sn |-> sn, d |-> d]
                          ELSE [sn |-> lastSn + k, d |-> buffer[lastSn + k]]]
               /\ UNCHANGED <<sessionId, heartbeatTimer, pongTimeout, ws,
                              sockets, stopped, reconnectAttempts, fetching,
                              sleeping, recovery>>]_vars

\* the consumer threw on 1 and on 2, and 3 was still delivered
C16_Witness ==
    /\ Len(observed) = 3
    /\ observed[1] = [sn |-> 3, d |-> "a", t |-> 1]
    /\ observed[2] = [sn |-> 2, d |-> "b", t |-> 1]
    /\ observed[3] = [sn |-> 1, d |-> "b", t |-> 1]
    /\ lastSn = 3
    /\ Len(delivered) = 3
    /\ DOMAIN buffer = {}

\* a step in which handleReconnect() runs: a RECONNECT frame on socket t, or
\* the second resume attempt of a recovery has failed
FullReconnectStep(t) ==
    \/ OnReconnect(t)
    \/ ~canResume /\ ResumeSleepWake(1)
    \/ ~heartbeatTimer /\ ResumeWaitWake(1)

\* C17 (RECONNECT is a full reconnect): a RECONNECT frame, and likewise the
\* exhaustion of recovery, discards sessionId, sets lastSn to 0, empties the
\* buffer, cancels the heartbeat timer and the pongTimeout and closes the
\* socket; the next connection attempt comes only after the backoff wait of
\* an incremented attempt number: the step itself starts that wait and no
\* endpoint fetch.
C17_ReconnectIsFullReconnect ==
    [][\A t \in Sockets :
           (~stopped /\ FullReconnectStep(t)) =>
               /\ sessionId' = 0
               /\ lastSn' = 0
               /\ buffer' = EmptyBuffer
               /\ ~heartbeatTimer'
               /\ ~pongTimeout'
               /\ ws # 0 => sockets'[ws].readyState \in {"CLOSING", "CLOSED"}
               /\ fetching' = fetching
               /\ OneMoreAttempt]_vars

\* socket t is the client's socket, open, with its handshake done
Connected(t) ==
    /\ ws = t
    /\ sockets[t].readyState = "OPEN"
    /\ sockets[t].helloTimeout = "cleared"
    /\ sessionId # 0

\* C18 (Transport closure): when the socket closes while the client is
\* connected and not stopped, the heartbeat timer and the pongTimeout are
\* cancelled and exactly one reconnection with backoff is started (one more
\* attempt, one wait, no endpoint fetch, no socket); when the client is
\* stopped, the close of a socket starts no reconnection.
C18_TransportClosure ==
    [][\A t \in Sockets :
           /\ (~stopped /\ Connected(t) /\ SocketClose(t)) =>
                  /\ ~heartbeatTimer'
                  /\ ~pongTimeout'
                  /\ OneMoreAttempt
                  /\ fetching' = fetching
                  /\ Len(sockets') = Len(sockets)
           /\ (stopped /\ SocketClose(t)) =>
                  /\ ~heartbeatTimer'
                  /\ ~pongTimeout'
                  /\ UNCHANGED <<reconnectAttempts, sleeping, fetching>>
                  /\ Len(sockets') = Len(sockets)]_vars

\* the socket of a session that had delivered an event has closed: the timers
\* are off and the first backoff wait runs
C18_Witness ==
    /\ ~stopped
    /\ ws = 1
    /\ sockets = <<ClosedSocket>>
    /\ sessionId # 0
    /\ lastSn = 1
    /\ ~heartbeatTimer
    /\ ~pongTimeout
    /\ reconnectAttempts = 1
    /\ sleeping = 1
    /\ fetching = 0
    /\ recovery = EmptyBag

\* the wait after extra probe i ends with recovery successful: the heartbeat
\* runs again and this recovery runs no further tier
ProbeSucceeds(i) ==
    /\ ProbeWaitWake(i)
    /\ heartbeatTimer'
    /\ recovery' = Finish(Task("probeWait", i))

\* C19 (Extra-probe success): the extra-probe tier ends recovery as
\* successful only if a PONG arrived within the 6000 ms after the probe; the
\* expiry of the pongTimeout is no response.  With a gateway that sends no
\* PONG at all, no extra probe ends recovery as successful.
C19_ExtraProbeSuccess ==
    [][\A i \in 0..1 : ~ProbeSucceeds(i)]_vars

\* ---- RecoveryLiveSpec: RecoverySpec with fair timers ----
\* Every timer that stays pending fires, and a step of the run is taken
\* whenever one is possible.
RecoveryFairness ==
    /\ WF_vars(RecoveryNext)
    /\ WF_vars(ClientStep /\ HeartbeatTick /\ NoCallback)
    /\ WF_vars(ClientStep /\ PongTimeoutFire /\ RecordEpisode /\ NoCallback)
    /\ \A i \in 0..1 :
           /\ WF_vars(ClientStep /\ ProbeSleepWake(i) /\ RecordProbe(i) /\ NoCallback)
           /\ WF_vars(ClientStep /\ ProbeWaitWake(i) /\ UNCHANGED recLog /\ NoCallback)
           /\ WF_vars(ClientStep /\ ResumeSleepWake(i) /\ RecordResume(i) /\ NoCallback)
           /\ WF_vars(ClientStep /\ ResumeWaitWake(i) /\ RecordResumeWait(i) /\ NoCallback)

RecoveryLiveSpec == RecoverySpec /\ RecoveryFairness

\* C20 (Recovery escalates to reconnect): once a pongTimeout has fired and a
\* recovery runs, with the socket open, no PONG, no RESUME_ACK and no stop(),
\* the client eventually discards the session (sessionId = null, by
\* handleReconnect) and begins a fresh connection attempt.
C20_RecoveryEscalates ==
    (recovery # EmptyBag) ~> (sessionId = 0)

\* C21 (Buffer invariant): in every reachable state, whatever events,
\* resumes and reconnections came before, every sequence number that is a
\* key of the buffer is greater than lastSn.
C21_BufferInvariant ==
    \A k \in DOMAIN buffer : k > lastSn

\* on the second socket, after 1 and 2 were delivered, 4 waits in the buffer
C21_Witness ==
    /\ ws = 2
    /\ sockets[2].readyState = "OPEN"
    /\ heartbeatTimer
    /\ lastSn = 2
    /\ DOMAIN buffer = {4}
    /\ Len(delivered) = 2

\* C22 (Decode errors are non-fatal): a frame that cannot be decoded is
\* dropped: lastSn, the buffer, sessionId, the timers, the sockets and the
\* deliveries are unchanged, and no reconnection (no wait, no fetch, no
\* recovery) is started.
C22_DecodeErrorsNonFatal ==
    [][\A t \in Sockets :
           OnUndecodable(t) =>
               UNCHANGED <<lastSn, buffer, sessionId, heartbeatTimer,
                           pongTimeout, ws, sockets, stopped,
                           reconnectAttempts, sleeping, fetching, recovery,
                           delivered>>]_vars

\* an undecodable frame arrived in a session with a PING unanswered and an
\* event waiting in the buffer
C22_Witness ==
    /\ emit = <<"parseError">>
    /\ ws # 0
    /\ sockets[ws].readyState = "OPEN"
    /\ heartbeatTimer
    /\ pongTimeout
    /\ lastSn = 1
    /\ DOMAIN buffer = {3}

\* the entries of an allow list as resolveKookAllowlistMatch reads them
Listed(allowFrom) == {toLowerCase(trim(entry)) : entry \in allowFrom} \ {""}

\* C23 (DM allowlist): when dmPolicy is "allowlist" or "pairing" (set, or
\* "pairing" by default), a direct message from a sender whose user id is
\* not listed in allowFrom, where allowFrom has no "*", is never dispatched
\* to the agent.
C23_DmAllowlist ==
    \A i \in DOMAIN handled :
        LET ctx == handled[i].ctx
            dmPolicy == orElse(kookCfg.dmPolicy, "pairing")
            allowFrom == Listed(orElse(kookCfg.allowFrom, {}))
        IN  (/\ ctx.channelType = "PERSON"
             /\ dmPolicy \in {"allowlist", "pairing"}
             /\ "*" \notin allowFrom
             /\ toLowerCase(ctx.senderId) \notin allowFrom)
            => handled[i].outcome # "dispatched"

\* C24 (Group policy default): when groupPolicy is not set, a group message
\* from a sender listed neither in the group's allowFrom nor, without one,
\* in groupAllowFrom is neither dispatched to the agent nor recorded in the
\* chat history.
C24_GroupPolicyDefault ==
    \A i \in DOMAIN handled :
        LET ctx == handled[i].ctx
            allowFrom == Listed(senderAllowFrom(kookCfg))
        IN  (/\ ctx.channelType = "GROUP"
             /\ kookCfg.groupPolicy = {}
             /\ "*" \notin allowFrom
             /\ toLowerCase(ctx.senderId) \notin allowFrom
             /\ \A name \in ctx.senderName : toLowerCase(name) \notin allowFrom)
            => handled[i].outcome = "dropped"

\* tryResume() of attempt i returns true: the recovery ends without a full
\* reconnect
ResumeSucceeds(i) ==
    /\ ResumeWaitWake(i)
    /\ heartbeatTimer
    /\ recovery' = Finish(Task("resumeWait", i))

\* C25 (Resume success detection): a resume attempt is reported successful
\* only if a RESUME_ACK arrived on the current socket within the 6000 ms
\* after the RESUME.  With a gateway that sends no RESUME_ACK at all, no
\* resume attempt is reported successful.
C25_ResumeSuccess ==
    [][\A i \in 0..1 : ~ResumeSucceeds(i)]_vars

\* C26 (Single recovery): at most one attemptRecovery call is in progress at
\* any time; a pongTimeout that fires while one is running, such as the one
\* armed by its own extra PING, starts no second one.
C26_SingleRecovery ==
    BagCardinality(recovery) <= 1

\* socket t has been replaced: the client's socket is another one
Superseded(t) == ws # 0 /\ t # ws

\* a callback of socket t: a frame for its message handler, or its close
FromSocket(t) ==
    \/ SocketClose(t)
    \/ \E sn \in 1..MaxSn : \E d \in MainPayloads : OnEvent(t, sn, d)
    \/ \E sid \in 0..MaxSessionId : OnHello(t, HELLO_CODE_SUCCESS, sid)
    \/ \E sid \in 1..MaxSessionId : OnResumeAck(t, sid)
    \/ OnPong(t)
    \/ OnReconnect(t)

\* C27 (A superseded socket is inert): a callback of a socket that is no
\* longer the client's socket (a late frame on it, or its close after a full
\* reconnect replaced it) leaves lastSn, the buffer and sessionId alone,
\* cancels neither the heartbeat timer nor the pongTimeout, and starts no
\* reconnection.
C27_SupersededInert ==
    [][\A t \in Sockets :
           (~stopped /\ Superseded(t) /\ FromSocket(t)) =>
               UNCHANGED <<lastSn, buffer, sessionId, heartbeatTimer,
                           pongTimeout, reconnectAttempts, sleeping,
                           fetching>>]_vars

\* a step of an attemptRecovery call after one of its sleeps
RecoveryStep ==
    \E i \in 0..1 :
        \/ ProbeSleepWake(i)
        \/ ProbeWaitWake(i)
        \/ ResumeSleepWake(i)
        \/ ResumeWaitWake(i)

\* every socket a running recovery started on has closed or been replaced
RecoveryUnbound ==
    /\ recovery # EmptyBag
    /\ \A k \in DOMAIN recLog :
           \/ recLog[k] # ws
           \/ recLog[k] = 0
           \/ sockets[recLog[k]].readyState \in {"CLOSING", "CLOSED"}

\* C28 (Recovery is bound to its socket): once the socket a recovery started
\* on has closed or been replaced, the recovery takes no further action: it
\* sends nothing, starts no timer and no connection, closes no socket opened
\* since, and resets neither lastSn, the buffer nor sessionId.
C28_RecoveryBound ==
    [][(RecoveryUnbound /\ RecoveryStep) =>
           UNCHANGED <<ws, sockets, sessionId, lastSn, buffer, heartbeatTimer,
                       pongTimeout, fetching>>]_vars

\* C29 (No callbacks after stop): once stop() has been called, onEvent and
\* onConnected are not invoked again, whatever EVENT or HELLO frames still
\* arrive on the closing socket before its close event.
C29_NoCallbacksAfterStop ==
    [][stopped =>
           /\ Len(delivered') <= Len(delivered)
           /\ \A k \in DOMAIN emit' : emit'[k] # "onConnected"]_vars

\* C30 (Abort stops once): when the abort signal fires after the client was
\* started, the client is stopped, the promise of the monitor is resolved
\* and onDisconnected is called exactly once.
C30_AbortStopsOnce ==
    [][(~aborted /\ aborted') =>
           /\ stopped'
           /\ resolved'
           /\ emit' = <<"onDisconnected">>]_vars

=============================================================================
